---- MODULE Spec2Model ----
(***************************************************************************)
(* Model of generate_brief.py: the daily brief pipeline.                   *)
(*                                                                         *)
(* main() calls generate_brief(), which checks the retrieval credential,   *)
(* appends a heading and a body per catalog section to `story` (one        *)
(* search_news call per section, strictly sequential), builds the PDF and  *)
(* returns its path; main() then calls send_email(), which checks the      *)
(* delivery credentials, attaches the PDF and talks to the SMTP transport. *)
(*                                                                         *)
(* Texts are sequences of tokens.  Three kinds of token matter to the      *)
(* program: ordinary prose, the token "<" (markup that the Paragraph       *)
(* constructor's parser rejects) and everything the program itself writes  *)
(* (headings, the error prefix, the placeholder).                          *)
(***************************************************************************)
EXTENDS Naturals, Sequences, FiniteSets

VARIABLES
    env,         \* the four module-level configuration values (truthy or not)
    pc,          \* position of the single thread of control
    sec,         \* index of the catalog section being processed (0: none)
    story,       \* generate_brief's local list of document elements
    inflight,    \* section whose client.messages.create call is pending (0: none)
    lastResp,    \* what the capability answered to the latest call
    result,      \* what search_news returned for the latest call
    calls,       \* log of capability calls: the prompt of each, in order
    buildCalls,  \* number of doc.build invocations
    artifact,    \* the PDF file on disk
    sendCalls,   \* number of send_email invocations
    msgBuilt,    \* send_email has built the MIME message
    session,     \* SMTP session: "none", "connected", "tls", "auth", "closed"
    sessions,    \* number of SMTP connections opened
    sent,        \* server.send_message completed
    exitStatus,  \* "running", "0" (main returned) or "1" (sys.exit(1))
    failedAt,    \* the position at which the run failed ("": it has not)
    clock,       \* the day datetime.now() reports, counted from the start
    pdf_filename,\* the path generate_brief chose for the PDF
    attachName   \* the filename send_email gave the attachment

vars == <<env, pc, sec, story, inflight, lastResp, result, calls, buildCalls,
          artifact, sendCalls, msgBuilt, session, sessions, sent, exitStatus,
          failedAt, clock, pdf_filename, attachName>>

Range(s) == {s[i] : i \in 1..Len(s)}

\* s occurs in t as a contiguous run of tokens
Contains(t, s) ==
    \E k \in 0..(Len(t) - Len(s)) : \A i \in 1..Len(s) : t[k + i] = s[i]

(***************************************************************************)
(* Bounds of the inputs drawn for search_news on its own.                  *)
(***************************************************************************)
MaxBlocks == 2
MaxTextLen == 2

\* the number of times the date can change during a run
MaxDay == 1

(***************************************************************************)
(* The catalog: four primary sections, the regions list, the deep dive.    *)
(***************************************************************************)
Primary ==
    << [name |-> "ARTIFICIAL INTELLIGENCE & TECHNOLOGY", type |-> "tech"],
       [name |-> "FINANCE & MARKETS", type |-> "finance"],
       [name |-> "REAL ESTATE", type |-> "realestate"],
       [name |-> "HACKER NEWS HIGHLIGHTS", type |-> "hackernews"] >>

\* the first two regions change places
regionsEuropeFirst ==
    << [name |-> "EUROPE", type |-> "regional"],
       [name |-> "NORTH AMERICA", type |-> "regional"],
       [name |-> "ASIA-PACIFIC", type |-> "regional"],
       [name |-> "MIDDLE EAST & AFRICA", type |-> "regional"],
       [name |-> "LATIN AMERICA", type |-> "regional"] >>

regions ==
    << [name |-> "NORTH AMERICA", type |-> "regional"],
       [name |-> "EUROPE", type |-> "regional"],
       [name |-> "ASIA-PACIFIC", type |-> "regional"],
       [name |-> "MIDDLE EAST & AFRICA", type |-> "regional"],
       [name |-> "LATIN AMERICA", type |-> "regional"] >>

DeepDive == [name |-> "RECOMMENDED DEEP DIVES", type |-> "deepdive"]

Catalog == Primary \o regions \o <<DeepDive>>

NumSections == Len(Catalog)
DeepDiveIdx == NumSections

(***************************************************************************)
(* Texts and what the retrieval capability can answer.                     *)
(***************************************************************************)
\* the lines of a text: prose, a blank line, and an opening tag that is never
\* closed
TextTokens == {"story", "", "<b>"}

Texts(n) == UNION {[1..k -> TextTokens] : k \in 0..n}

\* the classes of failure the capability raises; all derive from Exception
CapabilityErrors == {"APIStatusError", "APIConnectionError", "TypeError"}

Raise(cls, msg) ==
    [kind |-> "raise", cls |-> cls, msg |-> msg, content |-> <<>>]

Message(content) ==
    [kind |-> "message", cls |-> "", msg |-> <<>>, content |-> content]

\* a content block with a text attribute, and one without (a tool-use block)
TextBlock(t) == [hasText |-> TRUE, text |-> t]
ToolBlock == [hasText |-> FALSE, text |-> <<>>]

NoResponse == [kind |-> "none", cls |-> "", msg |-> <<>>, content |-> <<>>]

\* the answers drawn for each call of a whole run
PipelineResponses ==
    { Message(<<ToolBlock, TextBlock(<<"story">>)>>),
      Message(<<TextBlock(<<"story", "<b>">>)>>),
      Raise("APIStatusError", <<"story">>),
      Raise("APIConnectionError", <<"<b>">>) }

\* the answers drawn for search_news on its own
Blocks == {TextBlock(t) : t \in Texts(MaxTextLen)} \cup {ToolBlock}

Contents == UNION {[1..k -> Blocks] : k \in 0..MaxBlocks}

SearchResponses ==
    {Message(c) : c \in Contents}
        \cup {Raise(cls, m) : cls \in CapabilityErrors, m \in Texts(MaxTextLen)}

(***************************************************************************)
(* search_news.                                                            *)
(***************************************************************************)
ErrorPrefix == <<"Error retrieving news: ">>
Placeholder == <<"No significant news found.">>

\* full_text += block.text for every block that has a text attribute
RECURSIVE FullText(_)
FullText(content) ==
    IF content = <<>> THEN <<>>
    ELSE (IF Head(content).hasText THEN Head(content).text ELSE <<>>)
             \o FullText(Tail(content))

\* a handler that catches the API's own error class only
ExceptApiErrorOnly(cls) == cls = "APIStatusError"

\* `except Exception`: the classes the handler catches
ExceptException(cls) == cls \in CapabilityErrors

\* only the first block that has a text attribute is used
search_newsFirstTextBlock(resp) ==
    IF resp.kind = "raise"
    THEN [raised |-> FALSE, text |-> ErrorPrefix \o resp.msg]
    ELSE LET texts == SelectSeq(resp.content, LAMBDA b : b.hasText)
         IN  [raised |-> FALSE,
              text |-> IF texts # <<>> /\ texts[1].text # <<>>
                       THEN texts[1].text ELSE Placeholder]

\* the text is returned as it is, empty or not
search_newsNoPlaceholder(resp) ==
    IF resp.kind = "raise"
    THEN [raised |-> FALSE, text |-> ErrorPrefix \o resp.msg]
    ELSE [raised |-> FALSE, text |-> FullText(resp.content)]

\* the outcome of one call: the text returned, or the exception let through
search_news(resp) ==
    IF resp.kind = "raise"
    THEN IF ExceptException(resp.cls)
         THEN [raised |-> FALSE, text |-> ErrorPrefix \o resp.msg]
         ELSE [raised |-> TRUE, text |-> resp.msg]
    ELSE [raised |-> FALSE,
          text |-> IF FullText(resp.content) # <<>>
                   THEN FullText(resp.content) ELSE Placeholder]

(***************************************************************************)
(* The prompt of each call: f"{query}\n\n{format_instructions}".           *)
(***************************************************************************)
format_instructions == <<"format_instructions">>

\* str.replace on a token sequence
Replace(s, old, new) == [i \in 1..Len(s) |-> IF s[i] = old THEN new ELSE s[i]]

region_query(i) ==
    <<"Search for ", "2-3 needle-moving", " news stories from ", Catalog[i].name>>

enhanced_query(i) ==
    Replace(region_query(i), "2-3 needle-moving",
            "needle-moving (aim for 2-3 but only if genuinely significant)")
        \o <<" Quality over quantity.">>

deepdive_query == <<"Based on all the news stories from today, identify 1-2 stories">>

Query(i) ==
    IF i = DeepDiveIdx THEN deepdive_query
    ELSE IF Catalog[i].type = "regional" THEN enhanced_query(i)
    ELSE <<"Search for ", Catalog[i].type>>

Prompt(i) == Query(i) \o <<"\n\n">> \o format_instructions

(***************************************************************************)
(* Document elements.                                                      *)
(***************************************************************************)
Element(kind, i, text) == [kind |-> kind, sec |-> i, text |-> text]

TitleElements ==
    << Element("title", 0, <<"DAILY INTELLIGENCE BRIEF">>),
       Element("date", 0, <<"<i>", "today", "</i>">>),
       Element("spacer", 0, <<>>) >>

\* Paragraph(text, style) parses text as markup and raises ValueError on
\* markup it cannot parse, such as a tag left open
ParagraphRaises(text) == "<b>" \in Range(text)

\* the elements appended before the call of section i
HeadingElements(i) ==
    (IF i = DeepDiveIdx THEN <<Element("spacer", i, <<>>)>> ELSE <<>>)
        \o <<Element("heading", i, <<Catalog[i].name>>)>>

\* a body is appended only for a call that succeeded
BodyElementsDropsFailed(i, text) ==
    IF Len(text) > 0 /\ text[1] = "Error retrieving news: "
    THEN <<>>
    ELSE <<Element("body", i, text)>>
             \o (IF i = DeepDiveIdx THEN <<>> ELSE <<Element("spacer", i, <<>>)>>)

\* no spacer follows the body of a failed call
BodyElementsNoSpacerAfterError(i, text) ==
    <<Element("body", i, text)>>
        \o (IF i = DeepDiveIdx \/ (Len(text) > 0 /\ text[1] = "Error retrieving news: ")
            THEN <<>> ELSE <<Element("spacer", i, <<>>)>>)

\* the elements appended after the call of section i returned text
BodyElements(i, text) ==
    <<Element("body", i, text)>>
        \o (IF i = DeepDiveIdx THEN <<>> ELSE <<Element("spacer", i, <<>>)>>)

(***************************************************************************)
(* Initial state: the configuration is read from the environment when the  *)
(* module is loaded; each value is present (truthy) or not.                *)
(***************************************************************************)
Environments ==
    [ANTHROPIC_API_KEY : BOOLEAN, EMAIL_ADDRESS : BOOLEAN,
     EMAIL_PASSWORD : BOOLEAN, RECIPIENT_EMAIL : BOOLEAN]

NoArtifact == [exists |-> FALSE, elements |-> 0]

\* strftime('%Y%m%d') of the day the clock reports, inside a file name
FileName(dir, day) ==
    [dir |-> dir, stem |-> "daily_brief_", ymd |-> day, ext |-> ".pdf"]

NoName == [dir |-> "", stem |-> "", ymd |-> 0, ext |-> ""]

Init ==
    /\ env \in Environments
    /\ pc = "main"
    /\ sec = 0
    /\ story = <<>>
    /\ inflight = 0
    /\ lastResp = NoResponse
    /\ result = <<>>
    /\ calls = <<>>
    /\ buildCalls = 0
    /\ artifact = NoArtifact
    /\ sendCalls = 0
    /\ msgBuilt = FALSE
    /\ session = "none"
    /\ sessions = 0
    /\ sent = FALSE
    /\ exitStatus = "running"
    /\ failedAt = ""
    /\ clock = 0
    /\ pdf_filename = NoName
    /\ attachName = NoName

\* the date changes while the run is in progress
Tick ==
    /\ pc # "exit"
    /\ clock < MaxDay
    /\ clock' = clock + 1
    /\ UNCHANGED <<env, pc, sec, story, inflight, lastResp, result, calls,
                   buildCalls, artifact, sendCalls, msgBuilt, session,
                   sessions, sent, exitStatus, failedAt, pdf_filename,
                   attachName>>

\* sys.exit(1), reached directly or through main's `except Exception`
Fail ==
    /\ pc' = "exit"
    /\ exitStatus' = "1"
    /\ failedAt' = pc

\* main: the try block is entered and generate_brief is called
MainStart ==
    /\ pc = "main"
    /\ pc' = "gb_check"
    /\ UNCHANGED <<clock, pdf_filename, attachName>>
    /\ UNCHANGED <<env, sec, story, inflight, lastResp, result, calls,
                   buildCalls, artifact, sendCalls, msgBuilt, session,
                   sessions, sent, exitStatus, failedAt>>

\* the retrieval credential is not checked
CheckApiKeySkipped ==
    /\ pc = "gb_check"
    /\ pc' = "gb_title"
    /\ UNCHANGED <<clock, pdf_filename, attachName>>
    /\ UNCHANGED <<env, sec, story, inflight, lastResp, result, calls,
                   buildCalls, artifact, sendCalls, msgBuilt, session,
                   sessions, sent, exitStatus, failedAt>>

\* generate_brief: the retrieval credential is checked
CheckApiKey ==
    /\ pc = "gb_check"
    /\ IF ~env.ANTHROPIC_API_KEY
       THEN Fail /\ UNCHANGED pdf_filename
       ELSE /\ pdf_filename' = FileName("/tmp/", clock)
            /\ pc' = "gb_title"
            /\ UNCHANGED <<exitStatus, failedAt>>
    /\ UNCHANGED <<clock, attachName>>
    /\ UNCHANGED <<env, sec, story, inflight, lastResp, result, calls,
                   buildCalls, artifact, sendCalls, msgBuilt, session,
                   sessions, sent>>

\* generate_brief: story = [] and the title, the date line and a spacer
StartStory ==
    /\ pc = "gb_title"
    /\ story' = TitleElements
    /\ sec' = 1
    /\ pc' = "heading"
    /\ UNCHANGED <<clock, pdf_filename, attachName>>
    /\ UNCHANGED <<env, inflight, lastResp, result, calls, buildCalls,
                   artifact, sendCalls, msgBuilt, session, sessions, sent,
                   exitStatus, failedAt>>

\* the section's heading is appended
AppendHeading ==
    /\ pc = "heading"
    /\ story' = story \o HeadingElements(sec)
    /\ pc' = "call"
    /\ UNCHANGED <<clock, pdf_filename, attachName>>
    /\ UNCHANGED <<env, sec, inflight, lastResp, result, calls, buildCalls,
                   artifact, sendCalls, msgBuilt, session, sessions, sent,
                   exitStatus, failedAt>>

\* search_news is entered and client.messages.create is issued
CallStart ==
    /\ pc = "call"
    /\ inflight' = sec
    /\ calls' = Append(calls, [section |-> sec, prompt |-> Prompt(sec)])
    /\ pc' = "await"
    /\ UNCHANGED <<clock, pdf_filename, attachName>>
    /\ UNCHANGED <<env, sec, story, lastResp, result, buildCalls, artifact,
                   sendCalls, msgBuilt, session, sessions, sent, exitStatus,
                   failedAt>>

\* a failed call is issued again
CallReturnRetries ==
    /\ pc = "await"
    /\ \E resp \in PipelineResponses :
         /\ lastResp' = resp
         /\ inflight' = 0
         /\ IF resp.kind = "raise"
            THEN pc' = "call" /\ UNCHANGED result
            ELSE result' = search_news(resp).text /\ pc' = "body"
    /\ UNCHANGED <<clock, pdf_filename, attachName>>
    /\ UNCHANGED <<env, sec, story, calls, buildCalls, artifact, sendCalls,
                   msgBuilt, session, sessions, sent, exitStatus, failedAt>>

\* the capability answers and search_news returns (or lets the failure out,
\* which main's handler turns into sys.exit(1))
CallReturn ==
    /\ pc = "await"
    /\ \E resp \in PipelineResponses :
         /\ lastResp' = resp
         /\ inflight' = 0
         /\ IF search_news(resp).raised
            THEN Fail /\ UNCHANGED result
            ELSE /\ result' = search_news(resp).text
                 /\ pc' = "body"
                 /\ UNCHANGED <<exitStatus, failedAt>>
    /\ UNCHANGED <<clock, pdf_filename, attachName>>
    /\ UNCHANGED <<env, sec, story, calls, buildCalls, artifact, sendCalls,
                   msgBuilt, session, sessions, sent>>

\* the deep dive is processed right after the primary sections
NextSecDeepDiveBeforeRegions(i) ==
    IF i = Len(Primary) THEN NumSections
    ELSE IF i = NumSections THEN i ELSE i + 1

\* the section after i, or the build step after the last one
NextPc(i) == IF i = NumSections THEN "build" ELSE "heading"
NextSec(i) == IF i = NumSections THEN i ELSE i + 1

\* the body paragraph is constructed from the returned text and appended
AppendBody ==
    /\ pc = "body"
    /\ IF ParagraphRaises(result)
       THEN Fail /\ UNCHANGED <<story, sec>>
       ELSE /\ story' = story \o BodyElements(sec, result)
            /\ pc' = NextPc(sec)
            /\ sec' = NextSec(sec)
            /\ UNCHANGED <<exitStatus, failedAt>>
    /\ UNCHANGED <<clock, pdf_filename, attachName>>
    /\ UNCHANGED <<env, inflight, lastResp, result, calls, buildCalls,
                   artifact, sendCalls, msgBuilt, session, sessions, sent>>

\* a build failure is reported and generate_brief still returns the path
BuildContinuesOnError ==
    /\ pc = "build"
    /\ buildCalls' = buildCalls + 1
    /\ \E ok \in BOOLEAN :
         /\ artifact' = IF ok THEN [exists |-> TRUE, elements |-> Len(story)]
                        ELSE artifact
         /\ failedAt' = IF ok THEN failedAt ELSE "build"
         /\ pc' = "send_check"
    /\ UNCHANGED <<clock, pdf_filename, attachName>>
    /\ UNCHANGED <<env, sec, story, inflight, lastResp, result, calls,
                   sendCalls, msgBuilt, session, sessions, sent, exitStatus>>

\* doc.build(story): the PDF is written, or the build raises
Build ==
    /\ pc = "build"
    /\ buildCalls' = buildCalls + 1
    /\ \E ok \in BOOLEAN :
         IF ok
         THEN /\ artifact' = [exists |-> TRUE, elements |-> Len(story)]
              /\ pc' = "send_check"
              /\ UNCHANGED <<exitStatus, failedAt>>
         ELSE Fail /\ UNCHANGED artifact
    /\ UNCHANGED <<clock, pdf_filename, attachName>>
    /\ UNCHANGED <<env, sec, story, inflight, lastResp, result, calls,
                   sendCalls, msgBuilt, session, sessions, sent>>

(***************************************************************************)
(* send_email.                                                             *)
(***************************************************************************)
\* only the sender address is checked
EmailConfiguredAddressOnly == env.EMAIL_ADDRESS

\* all([EMAIL_ADDRESS, EMAIL_PASSWORD, RECIPIENT_EMAIL])
EmailConfigured ==
    env.EMAIL_ADDRESS /\ env.EMAIL_PASSWORD /\ env.RECIPIENT_EMAIL

\* send_email is entered: the credentials are checked, the message is created
CheckEmailConfig ==
    /\ pc = "send_check"
    /\ sendCalls' = sendCalls + 1
    /\ IF ~EmailConfigured
       THEN Fail /\ UNCHANGED msgBuilt
       ELSE /\ msgBuilt' = TRUE
            /\ pc' = "attach"
            /\ UNCHANGED <<exitStatus, failedAt>>
    /\ UNCHANGED <<clock, pdf_filename, attachName>>
    /\ UNCHANGED <<env, sec, story, inflight, lastResp, result, calls,
                   buildCalls, artifact, session, sessions, sent>>

\* open(pdf_path, 'rb'): the PDF is read and attached
AttachPdf ==
    /\ pc = "attach"
    /\ IF ~artifact.exists
       THEN Fail /\ UNCHANGED attachName
       ELSE /\ attachName' = FileName("", clock)
            /\ pc' = "connect"
            /\ UNCHANGED <<exitStatus, failedAt>>
    /\ UNCHANGED <<clock, pdf_filename>>
    /\ UNCHANGED <<env, sec, story, inflight, lastResp, result, calls,
                   buildCalls, artifact, sendCalls, msgBuilt, session,
                   sessions, sent>>

\* the handler reports the error and send_email returns normally
SmtpStepSwallowsError(at, to, after) ==
    /\ pc = at
    /\ \E ok \in BOOLEAN :
         IF ok
         THEN /\ session' = after
              /\ pc' = to
              /\ UNCHANGED <<exitStatus, failedAt, artifact>>
         ELSE /\ pc' = "exit"
              /\ exitStatus' = "0"
              /\ failedAt' = pc
              /\ UNCHANGED <<session, artifact>>

\* the handler removes the PDF before it exits
SmtpStepRemovesPdf(at, to, after) ==
    /\ pc = at
    /\ \E ok \in BOOLEAN :
         IF ok
         THEN /\ session' = after
              /\ pc' = to
              /\ UNCHANGED <<exitStatus, failedAt, artifact>>
         ELSE Fail /\ artifact' = NoArtifact /\ UNCHANGED session

\* one step of the SMTP try block: it succeeds and the session moves on, or
\* it raises and the handler calls sys.exit(1)
SmtpStep(at, to, after) ==
    /\ pc = at
    /\ \E ok \in BOOLEAN :
         IF ok
         THEN /\ session' = after
              /\ pc' = to
              /\ UNCHANGED <<exitStatus, failedAt, artifact>>
         ELSE Fail /\ UNCHANGED <<session, artifact>>

\* server = smtplib.SMTP('smtp.gmail.com', 587)
SmtpConnect ==
    /\ SmtpStep("connect", "starttls", "connected")
    /\ sessions' = IF session' = "connected" THEN sessions + 1 ELSE sessions
    /\ UNCHANGED <<clock, pdf_filename, attachName>>
    /\ UNCHANGED <<env, sec, story, inflight, lastResp, result, calls,
                   buildCalls, sendCalls, msgBuilt, sent>>

\* server.starttls()
SmtpStartTls ==
    /\ SmtpStep("starttls", "login", "tls")
    /\ UNCHANGED <<clock, pdf_filename, attachName>>
    /\ UNCHANGED <<env, sec, story, inflight, lastResp, result, calls,
                   buildCalls, sendCalls, msgBuilt, sessions, sent>>

\* a rejected login is ignored and the message is sent anyway
SmtpLoginIgnoresRejection ==
    /\ pc = "login"
    /\ \E ok \in BOOLEAN :
         /\ session' = IF ok THEN "auth" ELSE session
         /\ pc' = "send_message"
    /\ UNCHANGED <<clock, pdf_filename, attachName>>
    /\ UNCHANGED <<env, sec, story, inflight, lastResp, result, calls,
                   buildCalls, artifact, sendCalls, msgBuilt, sessions, sent,
                   exitStatus, failedAt>>

\* server.login(EMAIL_ADDRESS, EMAIL_PASSWORD)
SmtpLogin ==
    /\ SmtpStep("login", "send_message", "auth")
    /\ UNCHANGED <<clock, pdf_filename, attachName>>
    /\ UNCHANGED <<env, sec, story, inflight, lastResp, result, calls,
                   buildCalls, sendCalls, msgBuilt, sessions, sent>>

\* server.send_message(msg)
SmtpSendMessage ==
    /\ SmtpStep("send_message", "quit", session)
    /\ sent' = (pc' = "quit")
    /\ UNCHANGED <<clock, pdf_filename, attachName>>
    /\ UNCHANGED <<env, sec, story, inflight, lastResp, result, calls,
                   buildCalls, sendCalls, msgBuilt, sessions>>

\* server.quit(); send_email returns and main prints the success line
SmtpQuit ==
    /\ pc = "quit"
    /\ \E ok \in BOOLEAN :
         IF ok
         THEN /\ session' = "closed"
              /\ pc' = "exit"
              /\ exitStatus' = "0"
              /\ UNCHANGED failedAt
         ELSE Fail /\ UNCHANGED session
    /\ UNCHANGED <<clock, pdf_filename, attachName>>
    /\ UNCHANGED <<env, sec, story, inflight, lastResp, result, calls,
                   buildCalls, artifact, sendCalls, msgBuilt, sessions, sent>>

Next ==
    \/ Tick
    \/ MainStart
    \/ CheckApiKey
    \/ StartStory
    \/ AppendHeading
    \/ CallStart
    \/ CallReturn
    \/ AppendBody
    \/ Build
    \/ CheckEmailConfig
    \/ AttachPdf
    \/ SmtpConnect
    \/ SmtpStartTls
    \/ SmtpLogin
    \/ SmtpSendMessage
    \/ SmtpQuit

Spec == Init /\ [][Next]_vars

(***************************************************************************)
(* search_news on its own: the capability's answer is drawn from           *)
(* SearchResponses and the function is applied to it.                      *)
(***************************************************************************)
InitSearch ==
    /\ env = [ANTHROPIC_API_KEY |-> TRUE, EMAIL_ADDRESS |-> TRUE,
              EMAIL_PASSWORD |-> TRUE, RECIPIENT_EMAIL |-> TRUE]
    /\ pc = "search_news"
    /\ sec = 1
    /\ story = TitleElements \o HeadingElements(1)
    /\ inflight = 1
    /\ lastResp \in SearchResponses
    /\ result = <<>>
    /\ calls = <<[section |-> 1, prompt |-> Prompt(1)]>>
    /\ buildCalls = 0
    /\ artifact = NoArtifact
    /\ sendCalls = 0
    /\ msgBuilt = FALSE
    /\ session = "none"
    /\ sessions = 0
    /\ sent = FALSE
    /\ exitStatus = "running"
    /\ failedAt = ""
    /\ clock = 0
    /\ pdf_filename = FileName("/tmp/", 0)
    /\ attachName = NoName

\* search_news handles the answer: it returns a text or lets the failure out
SearchReturn ==
    /\ pc = "search_news"
    /\ inflight' = 0
    /\ result' = search_news(lastResp).text
    /\ pc' = IF search_news(lastResp).raised THEN "raised" ELSE "body"
    /\ UNCHANGED <<clock, pdf_filename, attachName>>
    /\ UNCHANGED <<env, sec, story, lastResp, calls, buildCalls, artifact,
                   sendCalls, msgBuilt, session, sessions, sent, exitStatus,
                   failedAt>>

NextSearch ==
    \/ SearchReturn
    \/ AppendBody

SpecSearch == InitSearch /\ [][NextSearch]_vars

(***************************************************************************)
(* Properties.                                                             *)
(***************************************************************************)
DeliveryStages ==
    {"send_check", "attach", "connect", "starttls", "login", "send_message",
     "quit"}

\* every section was processed: generate_brief reached doc.build
RetrievalFinished == pc = "build" \/ buildCalls > 0

SectionElements == SelectSeq(story, LAMBDA e : e.kind \in {"heading", "body"})

IsErrorBody(e) ==
    e.kind = "body" /\ Len(e.text) > 0 /\ e.text[1] = ErrorPrefix[1]

ConfigPresent == env.ANTHROPIC_API_KEY /\ EmailConfigured

\* C1: once the retrieval phase is finished, the document holds exactly one
\* heading followed by one body for every catalog section, in catalog order,
\* whatever calls failed.
C1_OneHeadingAndBodyPerSection ==
    RetrievalFinished =>
        /\ Len(SectionElements) = NumSections + NumSections
        /\ \A i \in 1..NumSections :
             /\ SectionElements[i + i - 1] =
                    Element("heading", i, <<Catalog[i].name>>)
             /\ SectionElements[i + i].kind = "body"
             /\ SectionElements[i + i].sec = i

\* C1 witness: the retrieval phase finished with a failed first section and a
\* successful second one
C1_Witness ==
    /\ pc = "build"
    /\ \E k \in 1..Len(story) : IsErrorBody(story[k]) /\ story[k].sec = 1
    /\ \E k \in 1..Len(story) :
         story[k].kind = "body" /\ story[k].sec = 2 /\ ~IsErrorBody(story[k])

\* C2 (as claimed): with the configuration present, a run that is not stopped
\* by the render step, by delivery or by the text of a successful retrieval
\* ends in success, with doc.build and send_email each invoked exactly once;
\* a failed retrieval call never aborts it.
C2_FailedRetrievalNeverAborts ==
    (/\ ConfigPresent
     /\ pc = "exit"
     /\ failedAt \notin ({"build"} \cup DeliveryStages)
     /\ ~(failedAt = "body" /\ lastResp.kind = "message"))
        => exitStatus = "0" /\ buildCalls = 1 /\ sendCalls = 1

\* C3 (as claimed): when any required configuration value is missing, no
\* retrieval call is ever made.
C3_MissingConfigNoRetrieval ==
    ~ConfigPresent => Len(calls) = 0

\* C4: when the capability call raises, search_news returns normally and the
\* text it returns is the error notice followed by the failure's message.
C4_SearchNewsContainsFailure ==
    (pc \in {"body", "raised"} /\ lastResp.kind = "raise") =>
        /\ pc = "body"
        /\ SubSeq(result, 1, Len(ErrorPrefix)) = ErrorPrefix
        /\ Contains(result, lastResp.msg)
        /\ Len(result) = Len(ErrorPrefix) + Len(lastResp.msg)

\* C4 witness: a failure with a two-token message was handled
C4_Witness ==
    /\ pc = "body"
    /\ lastResp.kind = "raise"
    /\ lastResp.msg = <<"story", "<b>">>

\* C5: when the deep-dive call is issued, every other section's call has been
\* issued before it and has resolved, and its body is in the document.
C5_DeepDiveAfterAllOthers ==
    \A k \in 1..Len(calls) :
        calls[k].section = DeepDiveIdx =>
            \A i \in 1..(NumSections - 1) :
                /\ \E j \in 1..(k - 1) : calls[j].section = i
                /\ inflight # i
                /\ \E n \in 1..Len(story) :
                     story[n].kind = "body" /\ story[n].sec = i

\* C5 witness: the deep-dive call is in flight after a failed regional call
C5_Witness ==
    /\ inflight = DeepDiveIdx
    /\ \E n \in 1..Len(story) :
         IsErrorBody(story[n]) /\ story[n].sec = NumSections - 1

\* C6 (as claimed): the prompt of the deep-dive call contains the body of
\* every preceding section.
C6_DeepDivePromptHoldsBodies ==
    \A k \in 1..Len(calls) :
        calls[k].section = DeepDiveIdx =>
            \A n \in 1..Len(story) :
                (story[n].kind = "body" /\ story[n].sec < DeepDiveIdx)
                    => Contains(calls[k].prompt, story[n].text)

\* C7: when doc.build fails, send_email is never invoked, no message is
\* built, no session is opened and the run has ended with status 1.
C7_RenderFailureSkipsDelivery ==
    failedAt = "build" =>
        /\ sendCalls = 0
        /\ ~msgBuilt
        /\ sessions = 0
        /\ session = "none"
        /\ ~sent
        /\ exitStatus = "1"

\* C7 witness: doc.build failed
C7_Witness == failedAt = "build" /\ buildCalls = 1 /\ pc = "exit"

\* C8: when delivery fails after a successful render, the run ends with
\* status 1 and the PDF is on disk as doc.build wrote it.
C8_ArtifactSurvivesDeliveryFailure ==
    failedAt \in DeliveryStages =>
        /\ exitStatus = "1"
        /\ pc = "exit"
        /\ artifact = [exists |-> TRUE, elements |-> Len(story)]

\* C8 witness: the login was rejected after the PDF had been written
C8_Witness == failedAt = "login" /\ buildCalls = 1 /\ session = "tls"

\* C9: no section is ever called twice, and once the retrieval phase is
\* finished search_news has been called exactly once per section, in order.
C9_OneAttemptPerSection ==
    /\ \A j, k \in 1..Len(calls) : calls[j].section = calls[k].section => j = k
    /\ RetrievalFinished =>
         /\ Len(calls) = NumSections
         /\ \A i \in 1..NumSections : calls[i].section = i

\* C9 witness: the retrieval phase finished although the first call failed
C9_Witness ==
    /\ pc = "build"
    /\ \E k \in 1..Len(story) : IsErrorBody(story[k]) /\ story[k].sec = 1
    /\ Len(calls) = NumSections

\* C10 (as claimed): a run that got past the configuration check fails only
\* at the render step or during delivery.
C10_FailureOnlyFromRenderOrDelivery ==
    exitStatus = "1" => failedAt \in ({"gb_check", "build"} \cup DeliveryStages)

\* C11 (as claimed): a finished run reports success exactly when the PDF was
\* rendered and the message was sent.
C11_SuccessIffRenderedAndSent ==
    pc = "exit" => (exitStatus = "0" <=> (artifact.exists /\ sent))

\* C11 (amended): a finished run reports success exactly when the PDF was
\* rendered, the message was sent and server.quit returned; every run with a
\* missing configuration value or a failed step ends with status 1.
C11_SuccessIffDeliveredAndClosed ==
    pc = "exit" =>
        /\ exitStatus \in {"0", "1"}
        /\ exitStatus = "0" <=>
               (artifact.exists /\ sent /\ session = "closed")
        /\ (failedAt # "" \/ ~ConfigPresent) => exitStatus = "1"

\* C11 witness: the message was sent and server.quit failed
C11_Witness ==
    pc = "exit" /\ failedAt = "quit" /\ sent /\ artifact.exists

\* C12: when a delivery credential is missing, no message is built, no SMTP
\* connection is opened, no login is attempted and nothing is sent.
C12_MissingCredentialsNoSession ==
    (~env.EMAIL_ADDRESS \/ ~env.EMAIL_PASSWORD \/ ~env.RECIPIENT_EMAIL) =>
        /\ sessions = 0
        /\ session = "none"
        /\ ~msgBuilt
        /\ ~sent
        /\ pc \notin {"attach", "connect", "starttls", "login",
                      "send_message", "quit"}

\* C12 witness: send_email was entered without the password and stopped
C12_Witness ==
    /\ failedAt = "send_check"
    /\ sendCalls = 1
    /\ env.EMAIL_ADDRESS /\ ~env.EMAIL_PASSWORD /\ env.RECIPIENT_EMAIL

\* C14 (as claimed): a finished run opened at most one SMTP session and left
\* none open.
C14_EverySessionClosed ==
    pc = "exit" => (sessions <= 1 /\ session \in {"none", "closed"})

\* C18: without the retrieval credential the run makes no retrieval call,
\* no render call, writes no PDF, attempts no delivery, opens no session and
\* ends with status 1 at the credential check.
C18_MissingApiKeyNoSideEffect ==
    ~env.ANTHROPIC_API_KEY =>
        /\ Len(calls) = 0
        /\ inflight = 0
        /\ story = <<>>
        /\ buildCalls = 0
        /\ artifact = NoArtifact
        /\ sendCalls = 0
        /\ ~msgBuilt
        /\ sessions = 0
        /\ session = "none"
        /\ ~sent
        /\ pc \in {"main", "gb_check", "exit"}
        /\ pc = "exit" => (exitStatus = "1" /\ failedAt = "gb_check")

\* C18 witness: the run ended at the credential check
C18_Witness ==
    ~env.ANTHROPIC_API_KEY /\ pc = "exit" /\ env.EMAIL_ADDRESS

\* C19: a message is sent only in a session in which starttls and login have
\* completed; when the connection, starttls or login fails nothing is sent
\* and the run ends with status 1.
C19_SendOnlyAfterTlsAndLogin ==
    /\ pc \in {"send_message", "quit"} => session = "auth"
    /\ sent => (session \in {"auth", "closed"} /\ sessions = 1)
    /\ failedAt \in {"connect", "starttls", "login"} =>
           (~sent /\ exitStatus = "1" /\ pc = "exit")

\* C19 witness: the message was sent in an authenticated session
C19_Witness == sent /\ session = "auth" /\ pc = "quit"

\* what the call of section i asks about
Topic(i) ==
    IF Catalog[i].type = "regional" THEN Catalog[i].name ELSE Catalog[i].type

ExpectedCallOrder ==
    << "tech", "finance", "realestate", "hackernews", "NORTH AMERICA",
       "EUROPE", "ASIA-PACIFIC", "MIDDLE EAST & AFRICA", "LATIN AMERICA",
       "deepdive" >>

\* C15: the calls are issued in the listed order; every call but the latest
\* has returned and its body is in the document; at most one call is in
\* flight, and it is the latest one.
C15_SequentialInCatalogOrder ==
    /\ Len(calls) <= Len(ExpectedCallOrder)
    /\ \A k \in 1..Len(calls) : Topic(calls[k].section) = ExpectedCallOrder[k]
    /\ \A k \in 1..(Len(calls) - 1) :
         \E n \in 1..Len(story) :
             story[n].kind = "body" /\ story[n].sec = calls[k].section
    /\ inflight # 0 =>
         /\ pc = "await"
         /\ inflight = calls[Len(calls)].section
         /\ \A n \in 1..Len(story) :
              story[n].kind = "body" => story[n].sec # inflight

\* C15 witness: the call for Europe is in flight after the one for North
\* America failed
C15_Witness ==
    /\ inflight # 0
    /\ Topic(inflight) = "EUROPE"
    /\ Len(calls) = Len(Primary) + 2
    /\ \E n \in 1..Len(story) :
         IsErrorBody(story[n]) /\ story[n].sec = inflight - 1

RECURSIVE Repeat(_, _)
Repeat(s, n) == IF n = 0 THEN <<>> ELSE s \o Repeat(s, n - 1)

\* title, date line and spacer; heading, body and spacer for each section
\* before the deep dive; spacer, heading and body for the deep dive
ExpectedKinds ==
    <<"title", "date", "spacer">>
        \o Repeat(<<"heading", "body", "spacer">>, Len(ExpectedCallOrder) - 1)
        \o <<"spacer", "heading", "body">>

Kinds(doc) == [n \in 1..Len(doc) |-> doc[n].kind]

\* C16: the document handed to doc.build always has the same number, kind
\* and order of elements, whichever calls failed, and at every moment the
\* elements appended so far are a prefix of that sequence.
C16_StructureIndependentOfFailures ==
    /\ Len(story) <= Len(ExpectedKinds)
    /\ Kinds(story) = SubSeq(ExpectedKinds, 1, Len(story))
    /\ RetrievalFinished => Kinds(story) = ExpectedKinds

\* C16 witness: a document with a failed first and last section is built
C16_Witness ==
    /\ pc = "build"
    /\ IsErrorBody(story[Len(story)])
    /\ \E n \in 1..Len(story) : IsErrorBody(story[n]) /\ story[n].sec = 1
    /\ \E n \in 1..Len(story) :
         story[n].kind = "body" /\ ~IsErrorBody(story[n])

\* C13 (as claimed): the date in the attachment's filename is the date in the
\* path of the PDF, however the clock advances during the run.
C13_AttachmentDateIsPdfDate ==
    attachName # NoName => attachName.ymd = pdf_filename.ymd

\* the body of the section that was just processed, once it is in the document
BodiesOf(i) ==
    {story[n].text : n \in {m \in 1..Len(story) :
                               story[m].kind = "body" /\ story[m].sec = i}}

HasBlankRun(text) ==
    \E k \in 1..(Len(text) - 1) : text[k] = "" /\ text[k + 1] = ""

\* C17 (as claimed): the body of a successful retrieval holds no run of two
\* or more blank lines.
C17_BlankRunsCollapsed ==
    lastResp.kind = "message" => \A t \in BodiesOf(1) : ~HasBlankRun(t)

\* C17 (amended): the body of a successful retrieval that returned text is
\* that text as returned, every block in order and every line kept.
C17_BodyIsTextAsReturned ==
    (lastResp.kind = "message" /\ \E b \in Range(lastResp.content) :
                                      b.hasText /\ b.text # <<>>) =>
        /\ pc = "body" => result = FullText(lastResp.content)
        /\ \A t \in BodiesOf(1) : t = FullText(lastResp.content)

\* C17 witness: a body with a blank line from each of two blocks is in the
\* document
C17_Witness ==
    /\ lastResp = Message(<<TextBlock(<<"story", "">>), TextBlock(<<"", "story">>)>>)
    /\ BodiesOf(1) = {<<"story", "", "", "story">>}

\* C20: search_news never returns an empty text; when the call succeeds
\* without any text the placeholder is returned; no body in the document is
\* empty.
C20_BodyNeverEmpty ==
    /\ pc = "body" => result # <<>>
    /\ \A n \in 1..Len(story) : story[n].kind = "body" => story[n].text # <<>>
    /\ (/\ pc \notin {"search_news", "raised"}
        /\ lastResp.kind = "message"
        /\ \A b \in Range(lastResp.content) : ~b.hasText \/ b.text = <<>>)
           => result = Placeholder

\* C20 witness: a call that returned a tool block and an empty text gave the
\* placeholder as the section's body
C20_Witness ==
    /\ lastResp = Message(<<ToolBlock, TextBlock(<<>>)>>)
    /\ BodiesOf(1) = {Placeholder}

====
